---- MODULE Spec2Model ----
(***************************************************************************)
(* ProSLAM relocalization engine (src/src/relocalization/relocalizer.cpp). *)
(*                                                                         *)
(* The relocalizer is modelled as a state machine over its members         *)
(* (_added_local_maps, _place_database, _closures,                         *)
(* _mask_id_references_for_correspondences) and the locals of a running    *)
(* detectClosures call.  A detectClosures call is a sequence of steps: the *)
(* entry (lines 30-57), one step per iteration of the reference loop       *)
(* (lines 58-118), the getchar() that follows every emitted Closure        *)
(* (line 119) and the return.  Spec covers the runs that follow            *)
(* construction and the start-up configure(); SpecLifecycle adds later     *)
(* configure() calls and registerClosures, one step per pending Closure.   *)
(*                                                                         *)
(* The pose aligner (src/src/aligners/uvd_aligner.cpp) is modelled on its  *)
(* own: SpecLinearize covers linearize and oneRound on an initialized      *)
(* aligner, SpecConverge a converge() call as one step per oneRound, and   *)
(* SpecAligner both on frames whose points carry their landmarks.          *)
(* Coordinates are small integers and the perspective division is exact.   *)
(* The solve of oneRound (H, b, the Jacobians, lines 113-146 and 157-167)  *)
(* is not modelled: after a round the new pose may predict every point     *)
(* anywhere among the PredictedPoints.                                     *)
(*                                                                         *)
(* What the model takes from outside relocalizer.cpp:                      *)
(*  - The place database (srrg_hbst) is an external collaborator.  The     *)
(*    model keeps the image identifiers it holds.  matchAndAdd answers     *)
(*    with one match vector for every image the database held before the   *)
(*    call; the vector of a reference image is drawn, from every vector    *)
(*    within the bounds, when line 59 reads it.                            *)
(*  - Every local map is handed to detectClosures once, has at least one   *)
(*    appearance, and its identifier is its position in order of addition. *)
(*  - A CandidateMap is visited in ascending order of landmark identifier. *)
(*  - Descriptor distances are carried by the code but never read by it,   *)
(*    and are left out.  Ratios are exact fractions.                       *)
(*  - The point-to-point engine behind _aligner (XYZAligner) is an         *)
(*    external collaborator: the model keeps the calls made on it.         *)
(*  - Reading _added_local_maps past its end (lines 69 and 115) is         *)
(*    undefined: the read either returns some pointer or ends the run.     *)
(***************************************************************************)
EXTENDS Integers, Sequences, FiniteSets, TLC

VARIABLES
  parameters,                    \* RelocalizerParameters (_parameters), fixed after construction
  added_local_maps,              \* _added_local_maps
  place_database,                \* _place_database: image identifiers in insertion order
  closures,                      \* _closures
  mask,                          \* _mask_id_references_for_correspondences
  pc,                            \* position of the single pipeline thread
  operation,                     \* the public operation the pipeline thread entered last
  local_map_query,               \* detectClosures: local_map_query_
  matches_per_reference_image,   \* detectClosures: the keys of matches_per_reference_image
  maximum_index_reference,       \* detectClosures: maximum_index_reference
  index_reference_local_map,     \* detectClosures: index_reference_local_map
  multiple_matches_mixed,        \* detectClosures: the match vector read at line 59
  searched,                      \* correspondence search: elements of the CandidateMap visited (line 104)
  correspondence,                \* correspondence search: the last return of _getCorrespondenceNN (line 107)
  correspondences,               \* correspondence search: the vector of line 100
  index_closure,                 \* registerClosures: closures the loop of line 154 has passed
  aligner_calls,                 \* registerClosures: the calls it has made on _aligner, in order
  maximum_number_of_iterations,  \* UVDAligner: _maximum_number_of_iterations
  error_delta_for_convergence,   \* UVDAligner: _error_delta_for_convergence
  frame,                         \* UVDAligner: the active points of _frame
  predicted_points_in_camera,    \* UVDAligner: what _world_to_camera makes of the points (lines 50-56)
  errors,                        \* UVDAligner: _errors
  inliers,                       \* UVDAligner: _inliers
  number_of_inliers,             \* UVDAligner: _number_of_inliers
  number_of_outliers,            \* UVDAligner: _number_of_outliers
  total_error,                   \* UVDAligner: _total_error
  has_system_converged,          \* UVDAligner: _has_system_converged
  iteration,                     \* converge: iteration
  total_error_previous,          \* converge: total_error_previous
  rounds                         \* converge: the oneRound calls made so far and the _total_error of each

vars == <<parameters, added_local_maps, place_database, closures, mask, pc, operation,
          local_map_query, matches_per_reference_image, maximum_index_reference,
          index_reference_local_map, multiple_matches_mixed,
          searched, correspondence, correspondences,
          index_closure, aligner_calls,
          maximum_number_of_iterations, error_delta_for_convergence, frame,
          predicted_points_in_camera, errors, inliers, number_of_inliers,
          number_of_outliers, total_error, has_system_converged, iteration,
          total_error_previous, rounds>>

\* the locals of the correspondence search, which SpecSearch steps through
search_vars == <<searched, correspondence, correspondences>>

\* the position of registerClosures and the engine it drives
register_vars == <<index_closure, aligner_calls>>

\* the members of the relocalizer and the locals of its operations
relocalizer_vars == <<parameters, added_local_maps, place_database, closures, mask, operation,
                      local_map_query, matches_per_reference_image, maximum_index_reference,
                      index_reference_local_map, multiple_matches_mixed, search_vars,
                      register_vars>>

\* the members of the pose aligner (UVDAligner) and the locals of converge
aligner_vars == <<maximum_number_of_iterations, error_delta_for_convergence, frame,
                  predicted_points_in_camera, errors, inliers, number_of_inliers,
                  number_of_outliers, total_error, has_system_converged, iteration,
                  total_error_previous, rounds>>

-----------------------------------------------------------------------------
(* Bounds of the model. *)

\* number of detectClosures calls with a non-null local map
MaxMaps == 3
\* longest match vector the database returns for one reference image
MaxMatches == 2
\* most appearances (descriptors) of a query local map
MaxAppearances == 2
\* longest match vector handed to the correspondence search of SpecSearch
MaxCandidates == 4
\* largest configured preliminary_minimum_interspace_queries
MaxInterspace == 3

\* identifiers of the landmarks of a query local map
QueryLandmarks == {1, 2}
\* identifiers of the landmarks held by the reference local maps
ReferenceLandmarks == {1, 2}
\* configured preliminary_minimum_matching_ratio, as <<numerator, denominator>>
MinimumMatchingRatios == {<<1, 10>>, <<1, 1>>}
\* configured minimum_number_of_matched_landmarks
MinimumMatchedLandmarks == {1, 2}
\* configured minimum_matches_per_correspondence
MinimumMatchesPerCorrespondence == {0, 1}

\* Count is an unsigned integer type: a difference below zero wraps around to a
\* value above every index the model reaches.  The model's integers end at
\* 2^31-1, which stands for the modulus.
CountModulus == 2147483647

NoLocalMap == [identifier |-> -1, appearances |-> 0]

-----------------------------------------------------------------------------
(* Helpers. *)

RECURSIVE Gcd(_, _)
Gcd(a, b) == IF b = 0 THEN a ELSE Gcd(b, a % b)

\* static_cast<real>(a)/b as an exact fraction in lowest terms
RealDivide(a, b) ==
  LET g == Gcd(a, b) IN IF g = 0 THEN <<a, b>> ELSE <<a \div g, b \div g>>

\* x < y for fractions with positive denominators
RealLess(x, y) == x[1] * y[2] < y[1] * x[2]

\* a - b in the unsigned type Count
SubtractCount(a, b) == IF a >= b THEN a - b ELSE CountModulus - (b - a)

Match == [query : QueryLandmarks, reference : ReferenceLandmarks]

\* every match vector the database may return for one reference image
MatchVectors == UNION {[1..n -> Match] : n \in 0..MaxMatches}

RECURSIVE SortedKeys(_)
\* the keys of a std::map in iteration order (ascending)
SortedKeys(S) ==
  IF S = {} THEN <<>>
  ELSE LET least == CHOOSE x \in S : \A y \in S : x <= y
       IN <<least>> \o SortedKeys(S \ {least})

-----------------------------------------------------------------------------
(* Relocalizer::_getCorrespondenceNN (lines 172-212). *)

\* nullptr
NoCorrespondence == [query |-> 0, reference |-> 0, votes |-> 0, confidence |-> <<0, 1>>]

\* mutant of line 186: the mask is not consulted
NotInMaskAlways(mask_, identifier) == TRUE

\* line 186: the candidate's reference is not in the mask
NotInMask(mask_, identifier) == identifier \notin mask_

\* mutant of line 199: a count equal to the threshold is accepted
SufficientConfidenceOrEqual(match_best, count_best) ==
  match_best # 0 /\ count_best >= parameters.minimum_matches_per_correspondence

\* line 199: a match was found with sufficient confidence
SufficientConfidence(match_best, count_best) ==
  match_best # 0 /\ count_best > parameters.minimum_matches_per_correspondence

\* mutant of line 202: the winner is not added to the mask
InsertIntoMaskNothing(mask_, identifier) == mask_

\* line 202: block matching against this point by adding it to the mask
InsertIntoMask(mask_, identifier) == mask_ \cup {identifier}

RECURSIVE CountEntries(_, _, _, _, _, _)
\* lines 183-196: the loop over the list; counts is the multiset, match_best the
\* position of the best candidate so far (0: nullptr)
CountEntries(matches_, mask_, i, counts, count_best, match_best) ==
  IF i > Len(matches_)
  THEN [count_best |-> count_best, match_best |-> match_best]
  ELSE LET identifier == matches_[i].reference IN
       IF NotInMask(mask_, identifier)
       THEN LET inserted      == [counts EXCEPT ![identifier] = @ + 1]
                count_current == inserted[identifier]
            IN IF count_best < count_current
               THEN CountEntries(matches_, mask_, i + 1, inserted, count_current, i)
               ELSE CountEntries(matches_, mask_, i + 1, inserted, count_best, match_best)
       ELSE CountEntries(matches_, mask_, i + 1, counts, count_best, match_best)

\* the returned Correspondence (or nullptr) and the mask the call leaves
GetCorrespondenceNN(matches_, mask_) ==
  LET counted == CountEntries(matches_, mask_, 1, [r \in ReferenceLandmarks |-> 0], 0, 0)
      best    == counted.match_best
      votes   == counted.count_best
  IN IF SufficientConfidence(best, votes)
     THEN [correspondence |-> [query      |-> matches_[best].query,
                               reference  |-> matches_[best].reference,
                               votes      |-> votes,
                               confidence |-> RealDivide(votes, Len(matches_))],
           mask |-> InsertIntoMask(mask_, matches_[best].reference)]
     ELSE [correspondence |-> NoCorrespondence, mask |-> mask_]

-----------------------------------------------------------------------------
(* Relocalizer::detectClosures, the body of the reference loop (lines 59-118). *)

\* line 62: relative_number_of_matches
RelativeNumberOfMatches(matches, number_of_query_matchables) ==
  RealDivide(Len(matches), number_of_query_matchables)

\* mutant of line 65: the comparison is turned around
InsufficientMatchingRatioReversed(relative_number_of_matches) ==
  RealLess(parameters.preliminary_minimum_matching_ratio, relative_number_of_matches)

\* line 65: the matching ratio is insufficient
InsufficientMatchingRatio(relative_number_of_matches) ==
  RealLess(relative_number_of_matches, parameters.preliminary_minimum_matching_ratio)

RECURSIVE OrganizePerLandmark(_, _, _)
\* lines 72-92: the matches organized per query landmark identifier (a CandidateMap)
OrganizePerLandmark(matches, i, multiple_matches_per_landmark) ==
  IF i > Len(matches) THEN multiple_matches_per_landmark
  ELSE LET query_landmark_identifier == matches[i].query IN
       IF query_landmark_identifier \in DOMAIN multiple_matches_per_landmark
       THEN OrganizePerLandmark(matches, i + 1,
              [multiple_matches_per_landmark EXCEPT
                 ![query_landmark_identifier] = Append(@, matches[i])])
       ELSE OrganizePerLandmark(matches, i + 1,
              (query_landmark_identifier :> <<matches[i]>>) @@ multiple_matches_per_landmark)

MultipleMatchesPerLandmark(matches) == OrganizePerLandmark(matches, 1, <<>>)

\* mutant of line 95: the matches are counted instead of the landmarks
InsufficientMatchedLandmarksCountsMatches(multiple_matches_per_landmark) ==
  Cardinality(UNION {{<<l, k>> : k \in DOMAIN multiple_matches_per_landmark[l]} :
                       l \in DOMAIN multiple_matches_per_landmark})
    < parameters.minimum_number_of_matched_landmarks

\* mutant of line 95: a count equal to the minimum is rejected too
InsufficientMatchedLandmarksOrEqual(multiple_matches_per_landmark) ==
  Cardinality(DOMAIN multiple_matches_per_landmark)
    <= parameters.minimum_number_of_matched_landmarks

\* line 95: the number of matching landmarks is insufficient
InsufficientMatchedLandmarks(multiple_matches_per_landmark) ==
  Cardinality(DOMAIN multiple_matches_per_landmark) < parameters.minimum_number_of_matched_landmarks

RECURSIVE ComputeCorrespondences(_, _, _, _)
\* lines 104-111: the best correspondence of every landmark's candidates, in the
\* map's order; returns the correspondences and the mask left behind
ComputeCorrespondences(keys, multiple_matches_per_landmark, mask_, correspondences_) ==
  IF keys = <<>> THEN [correspondences |-> correspondences_, mask |-> mask_]
  ELSE LET found == GetCorrespondenceNN(multiple_matches_per_landmark[Head(keys)], mask_)
       IN ComputeCorrespondences(Tail(keys), multiple_matches_per_landmark, found.mask,
            IF found.correspondence # NoCorrespondence
            THEN Append(correspondences_, found.correspondence)
            ELSE correspondences_)

\* line 101: the mask is cleared before the correspondence search of a reference
MaskBeforeSearch(mask_) == {}

\* mutant of line 115: the vector is indexed one position too far
ReferenceLocalMapOneTooFar(index) == added_local_maps[index + 2]

\* line 115: _added_local_maps[index]
ReferenceLocalMap(index) == added_local_maps[index + 1]

\* mutant of line 116: the number of resolved correspondences is handed over
NumberOfMatchedLandmarksResolved(multiple_matches_per_landmark, correspondences_) ==
  Len(correspondences_)

\* line 116: the matched-landmark count handed to the Closure
NumberOfMatchedLandmarks(multiple_matches_per_landmark, correspondences_) ==
  Cardinality(DOMAIN multiple_matches_per_landmark)

\* lines 114-118: new Closure(...)
NewClosure(query, reference, multiple_matches_per_landmark, relative_number_of_matches, correspondences_) ==
  [local_map_query          |-> query,
   local_map_reference      |-> reference,
   number_of_matched_landmarks |-> NumberOfMatchedLandmarks(multiple_matches_per_landmark,
                                                           correspondences_),
   relative_number_of_matches |-> relative_number_of_matches,
   correspondences          |-> correspondences_]

-----------------------------------------------------------------------------
(* The point-to-point alignment engine (XYZAligner) that registerClosures drives.
   Its source is not part of these files; spec.md section 4.1 gives its contract:
   initialize binds the engine to a Closure, converge runs the Gauss-Newton
   iteration on it, bounded by the iteration cap, and returns.  The model keeps
   the calls a running registerClosures makes on the engine. *)

\* line 155: _aligner->initialize(closure)
AlignerInitialize(closure) == [call |-> "initialize", closure |-> closure]

\* line 156: _aligner->converge(), on the Closure the engine is bound to
AlignerConverge(closure) == [call |-> "converge", closure |-> closure]

\* the pose aligner is not in use: no frame is bound to it
NoAligner ==
  /\ maximum_number_of_iterations = 0
  /\ error_delta_for_convergence = 0
  /\ frame = <<>>
  /\ predicted_points_in_camera = <<>>
  /\ errors = <<>>
  /\ inliers = <<>>
  /\ number_of_inliers = 0
  /\ number_of_outliers = 0
  /\ total_error = 0
  /\ has_system_converged = FALSE
  /\ iteration = 0
  /\ total_error_previous = 0
  /\ rounds = <<>>

-----------------------------------------------------------------------------
(* The state machine. *)

ParameterValues ==
  [preliminary_minimum_interspace_queries : 0..MaxInterspace,
   preliminary_minimum_matching_ratio     : MinimumMatchingRatios,
   minimum_number_of_matched_landmarks    : MinimumMatchedLandmarks,
   minimum_matches_per_correspondence     : MinimumMatchesPerCorrespondence]

\* Relocalizer::Relocalizer followed by the start-up configure(): nothing recorded,
\* nothing pending, an empty database
Init ==
  /\ parameters \in ParameterValues
  /\ added_local_maps = <<>>
  /\ place_database = <<>>
  /\ closures = <<>>
  /\ mask = {}
  /\ pc = "idle"
  /\ operation = "configure"
  /\ local_map_query = NoLocalMap
  /\ matches_per_reference_image = {}
  /\ maximum_index_reference = 0
  /\ index_reference_local_map = 0
  /\ multiple_matches_mixed = <<>>
  /\ searched = 0
  /\ correspondence = NoCorrespondence
  /\ correspondences = <<>>
  /\ index_closure = 0
  /\ aligner_calls = <<>>
  /\ NoAligner

\* mutant of line 40: the database size is compared with another parameter
NotInQueryRangeOtherParameter(database_size) ==
  database_size < parameters.minimum_number_of_matched_landmarks

\* line 40: not yet in query range
NotInQueryRange(database_size) ==
  database_size < parameters.preliminary_minimum_interspace_queries

\* mutant of line 57: the range ends one reference later
MaximumIndexReferenceOneMore(database_size) ==
  SubtractCount(database_size, parameters.preliminary_minimum_interspace_queries) + 1

\* line 57: maximum_index_reference, from the size the database has after the add
MaximumIndexReference(database_size) ==
  SubtractCount(database_size, parameters.preliminary_minimum_interspace_queries)

\* mutant of lines 32-37: the null check comes after the push_back
DetectClosuresNullRecorded ==
  /\ pc = "idle"
  /\ Len(added_local_maps) < MaxMaps
  /\ operation' = "detectClosures(nullptr)"
  /\ added_local_maps' = Append(added_local_maps, NoLocalMap)
  /\ UNCHANGED <<aligner_vars, parameters, place_database, closures, mask, pc,
                 local_map_query, matches_per_reference_image, maximum_index_reference,
                 index_reference_local_map, multiple_matches_mixed, search_vars,
                 register_vars>>

\* lines 32-34: detectClosures(nullptr) returns at once
DetectClosuresNull ==
  /\ pc = "idle"
  /\ operation' = "detectClosures(nullptr)"
  /\ UNCHANGED <<aligner_vars, parameters, added_local_maps, place_database, closures, mask, pc,
                 local_map_query, matches_per_reference_image, maximum_index_reference,
                 index_reference_local_map, multiple_matches_mixed, search_vars,
                 register_vars>>

\* lines 30-57: detectClosures(local_map_query_) up to the reference loop.  The
\* local map is new: its identifier is the number of local maps handed over
\* before it, and it has at least one appearance.
DetectClosures(appearances) ==
  /\ pc = "idle"
  /\ Len(place_database) < MaxMaps
  /\ operation' = "detectClosures"
  /\ LET query == [identifier |-> Len(place_database), appearances |-> appearances] IN
     /\ added_local_maps' = Append(added_local_maps, query)
     /\ place_database' = Append(place_database, query.identifier)
     /\ IF NotInQueryRange(Len(place_database))
        THEN \* line 43: add only
             /\ UNCHANGED <<pc, local_map_query, matches_per_reference_image,
                            maximum_index_reference, index_reference_local_map>>
        ELSE \* lines 50-58: matchAndAdd answers for the images it held before
             /\ pc' = "loop"
             /\ local_map_query' = query
             /\ matches_per_reference_image' =
                  {place_database[k] : k \in DOMAIN place_database}
             /\ maximum_index_reference' = MaximumIndexReference(Len(place_database'))
             /\ index_reference_local_map' = 0
  /\ UNCHANGED <<aligner_vars, parameters, closures, mask, multiple_matches_mixed, search_vars, register_vars>>

\* line 59: matches_per_reference_image.at(index) throws std::out_of_range for a
\* key the map does not hold; nothing catches it and the program is terminated
OutOfRange ==
  /\ pc = "loop"
  /\ index_reference_local_map < maximum_index_reference
  /\ index_reference_local_map \notin matches_per_reference_image
  /\ pc' = "terminated"
  /\ UNCHANGED <<aligner_vars, parameters, operation, added_local_maps, place_database, closures, mask,
                 local_map_query, matches_per_reference_image, maximum_index_reference,
                 index_reference_local_map, multiple_matches_mixed, search_vars, register_vars>>

\* lines 59-118: one iteration of the reference loop, on the match vector the
\* database returned for this reference
EvaluateReference(matches) ==
  /\ pc = "loop"
  /\ index_reference_local_map < maximum_index_reference
  /\ index_reference_local_map \in matches_per_reference_image
  /\ index_reference_local_map < Len(added_local_maps)
  /\ LET relative_number_of_matches ==
           RelativeNumberOfMatches(matches, local_map_query.appearances)
         multiple_matches_per_landmark == MultipleMatchesPerLandmark(matches)
         found == ComputeCorrespondences(SortedKeys(DOMAIN multiple_matches_per_landmark),
                                         multiple_matches_per_landmark,
                                         MaskBeforeSearch(mask), <<>>)
     IN IF \/ InsufficientMatchingRatio(relative_number_of_matches)
           \/ InsufficientMatchedLandmarks(multiple_matches_per_landmark)
        THEN \* lines 66, 96: continue
             /\ index_reference_local_map' = index_reference_local_map + 1
             /\ UNCHANGED <<closures, mask, pc>>
        ELSE \* lines 99-118: the Closure is pushed, then line 119 waits
             /\ closures' = Append(closures,
                   NewClosure(local_map_query, ReferenceLocalMap(index_reference_local_map),
                              multiple_matches_per_landmark, relative_number_of_matches,
                              found.correspondences))
             /\ mask' = found.mask
             /\ pc' = "getchar"
             /\ UNCHANGED index_reference_local_map
  /\ multiple_matches_mixed' = matches
  /\ UNCHANGED <<aligner_vars, parameters, operation, added_local_maps, place_database, local_map_query,
                 matches_per_reference_image, maximum_index_reference, search_vars, register_vars>>

\* line 119: getchar() returns once standard input delivers a character (or its end)
GetChar ==
  /\ pc = "getchar"
  /\ pc' = "loop"
  /\ index_reference_local_map' = index_reference_local_map + 1
  /\ UNCHANGED <<aligner_vars, parameters, operation, added_local_maps, place_database, closures, mask,
                 local_map_query, matches_per_reference_image, maximum_index_reference,
                 multiple_matches_mixed, search_vars, register_vars>>

\* lines 58, 121-149: the loop ends and detectClosures returns
Return ==
  /\ pc = "loop"
  /\ ~(index_reference_local_map < maximum_index_reference)
  /\ pc' = "idle"
  /\ local_map_query' = NoLocalMap
  /\ matches_per_reference_image' = {}
  /\ maximum_index_reference' = 0
  /\ index_reference_local_map' = 0
  /\ multiple_matches_mixed' = <<>>
  /\ UNCHANGED <<aligner_vars, parameters, operation, added_local_maps, place_database, closures, mask, search_vars, register_vars>>

\* mutant of line 167: the closures are released, the mask is kept
ClearKeepsMask ==
  /\ pc = "idle"
  /\ closures' = <<>>
  /\ operation' = "clear"
  /\ UNCHANGED <<aligner_vars, parameters, added_local_maps, place_database, mask, pc, local_map_query,
                 matches_per_reference_image, maximum_index_reference,
                 index_reference_local_map, multiple_matches_mixed, search_vars,
                 register_vars>>

\* lines 161-169: Relocalizer::clear
Clear ==
  /\ pc = "idle"
  /\ closures' = <<>>
  /\ mask' = {}
  /\ operation' = "clear"
  /\ UNCHANGED <<aligner_vars, parameters, added_local_maps, place_database, pc, local_map_query,
                 matches_per_reference_image, maximum_index_reference,
                 index_reference_local_map, multiple_matches_mixed, search_vars, register_vars>>

Next ==
  \/ DetectClosuresNull
  \/ \E appearances \in 1..MaxAppearances : DetectClosures(appearances)
  \/ OutOfRange
  \/ \E matches \in MatchVectors : EvaluateReference(matches)
  \/ GetChar
  \/ Return
  \/ Clear

Spec == Init /\ [][Next]_vars

-----------------------------------------------------------------------------
(* The relocalizer under every sequence of its public operations: configure,
   detectClosures, registerClosures and clear, called while no other is running. *)

\* lines 11-20: Relocalizer::configure.  The place database is a member that
\* neither configure nor clear touches; the new XYZAligner of line 17 has got no call
\* from registerClosures.
Configure ==
  /\ pc = "idle"
  /\ added_local_maps' = <<>>
  /\ closures' = <<>>
  /\ mask' = {}
  /\ operation' = "configure"
  /\ UNCHANGED <<aligner_vars, parameters, place_database, pc, local_map_query,
                 matches_per_reference_image, maximum_index_reference,
                 index_reference_local_map, multiple_matches_mixed, search_vars,
                 register_vars>>

\* what a read of _added_local_maps[index] past the end of the vector may yield:
\* any pointer, to a local map handed over earlier or to none
StaleLocalMaps ==
  {NoLocalMap} \cup [identifier : 0..(MaxMaps - 1), appearances : 1..MaxAppearances]

\* lines 59-118 for a reference index the vector of recorded local maps does not
\* hold.  An insufficient ratio skips the reference (line 66); otherwise lines 69
\* and 115 read past the end of _added_local_maps, which is undefined: the
\* program goes on with whatever pointer the read yields, or is terminated
\* (ReadUnrecordedReference).
EvaluateUnrecordedReference(matches, local_map_read) ==
  /\ pc = "loop"
  /\ index_reference_local_map < maximum_index_reference
  /\ index_reference_local_map \in matches_per_reference_image
  /\ ~(index_reference_local_map < Len(added_local_maps))
  /\ LET relative_number_of_matches ==
           RelativeNumberOfMatches(matches, local_map_query.appearances)
         multiple_matches_per_landmark == MultipleMatchesPerLandmark(matches)
         found == ComputeCorrespondences(SortedKeys(DOMAIN multiple_matches_per_landmark),
                                         multiple_matches_per_landmark,
                                         MaskBeforeSearch(mask), <<>>)
     IN IF InsufficientMatchingRatio(relative_number_of_matches)
        THEN /\ index_reference_local_map' = index_reference_local_map + 1
             /\ UNCHANGED <<closures, mask, pc>>
        ELSE IF InsufficientMatchedLandmarks(multiple_matches_per_landmark)
        THEN /\ index_reference_local_map' = index_reference_local_map + 1
             /\ UNCHANGED <<closures, mask, pc>>
        ELSE /\ closures' = Append(closures,
                   NewClosure(local_map_query, local_map_read,
                              multiple_matches_per_landmark, relative_number_of_matches,
                              found.correspondences))
             /\ mask' = found.mask
             /\ pc' = "getchar"
             /\ UNCHANGED index_reference_local_map
  /\ multiple_matches_mixed' = matches
  /\ UNCHANGED <<aligner_vars, parameters, operation, added_local_maps, place_database, local_map_query,
                 matches_per_reference_image, maximum_index_reference, search_vars,
                 register_vars>>

\* lines 69, 115: the other outcome of the read past the end of the vector
ReadUnrecordedReference(matches) ==
  /\ pc = "loop"
  /\ index_reference_local_map < maximum_index_reference
  /\ index_reference_local_map \in matches_per_reference_image
  /\ ~(index_reference_local_map < Len(added_local_maps))
  /\ ~InsufficientMatchingRatio(RelativeNumberOfMatches(matches, local_map_query.appearances))
  /\ pc' = "terminated"
  /\ multiple_matches_mixed' = matches
  /\ UNCHANGED <<aligner_vars, parameters, operation, added_local_maps, place_database, closures, mask,
                 local_map_query, matches_per_reference_image, maximum_index_reference,
                 index_reference_local_map, search_vars, register_vars>>

\* mutant of line 154: closures without correspondences are passed over
ClosuresToRegisterWithCorrespondences(closures_) ==
  SelectSeq(closures_, LAMBDA closure : closure.correspondences # <<>>)

\* line 154: the closures the loop runs over
ClosuresToRegister(closures_) == closures_

\* lines 152-154: registerClosures is entered
RegisterClosures ==
  /\ pc = "idle"
  /\ pc' = "register"
  /\ index_closure' = 0
  /\ aligner_calls' = <<>>
  /\ operation' = "registerClosures"
  /\ UNCHANGED <<aligner_vars, parameters, added_local_maps, place_database, closures, mask,
                 local_map_query, matches_per_reference_image, maximum_index_reference,
                 index_reference_local_map, multiple_matches_mixed, search_vars>>

\* lines 154-157: one iteration of the loop, on the next closure of the list
RegisterClosure ==
  /\ pc = "register"
  /\ index_closure < Len(ClosuresToRegister(closures))
  /\ LET closure == ClosuresToRegister(closures)[index_closure + 1]
     IN aligner_calls' = aligner_calls \o <<AlignerInitialize(closure), AlignerConverge(closure)>>
  /\ index_closure' = index_closure + 1
  /\ UNCHANGED <<aligner_vars, parameters, operation, added_local_maps, place_database, closures, mask, pc,
                 local_map_query, matches_per_reference_image, maximum_index_reference,
                 index_reference_local_map, multiple_matches_mixed, search_vars>>

\* lines 154, 158-159: the loop ends and registerClosures returns
ReturnRegister ==
  /\ pc = "register"
  /\ ~(index_closure < Len(ClosuresToRegister(closures)))
  /\ pc' = "idle"
  /\ index_closure' = 0
  /\ aligner_calls' = <<>>
  /\ UNCHANGED <<aligner_vars, parameters, operation, added_local_maps, place_database, closures, mask,
                 local_map_query, matches_per_reference_image, maximum_index_reference,
                 index_reference_local_map, multiple_matches_mixed, search_vars>>

NextLifecycle ==
  \/ Next
  \/ Configure
  \/ \E matches \in MatchVectors, local_map_read \in StaleLocalMaps :
       EvaluateUnrecordedReference(matches, local_map_read)
  \/ \E matches \in MatchVectors : ReadUnrecordedReference(matches)
  \/ RegisterClosures
  \/ RegisterClosure
  \/ ReturnRegister

\* as Init, for the configurations that demand two matched landmarks of a reference
InitLifecycle ==
  /\ Init
  /\ parameters.minimum_number_of_matched_landmarks = 2

SpecLifecycle == InitLifecycle /\ [][NextLifecycle]_vars

-----------------------------------------------------------------------------
(* The correspondence search of one reference local map (lines 99-111), step
   by step: one _getCorrespondenceNN call per element of the CandidateMap. *)

\* every match vector the search is run on
CandidateVectors == UNION {[1..n -> Match] : n \in 1..MaxCandidates}

\* lines 99-101: a match vector has passed both gates, the vector of
\* correspondences is empty and the mask has just been cleared
InitSearch ==
  /\ parameters \in ParameterValues
  /\ added_local_maps = <<>>
  /\ place_database = <<>>
  /\ closures = <<>>
  /\ mask = MaskBeforeSearch({})
  /\ pc = "search"
  /\ operation = "detectClosures"
  /\ local_map_query = NoLocalMap
  /\ matches_per_reference_image = {}
  /\ maximum_index_reference = 0
  /\ index_reference_local_map = 0
  /\ multiple_matches_mixed \in CandidateVectors
  /\ searched = 0
  /\ correspondence = NoCorrespondence
  /\ correspondences = <<>>
  /\ index_closure = 0
  /\ aligner_calls = <<>>
  /\ NoAligner

\* lines 104-111: one iteration of the loop over the CandidateMap
SearchCorrespondence ==
  /\ pc = "search"
  /\ LET multiple_matches_per_landmark == MultipleMatchesPerLandmark(multiple_matches_mixed)
         keys == SortedKeys(DOMAIN multiple_matches_per_landmark)
     IN /\ searched < Len(keys)
        /\ LET found == GetCorrespondenceNN(multiple_matches_per_landmark[keys[searched + 1]], mask)
           IN /\ correspondence' = found.correspondence
              /\ mask' = found.mask
              /\ correspondences' = IF found.correspondence # NoCorrespondence
                                    THEN Append(correspondences, found.correspondence)
                                    ELSE correspondences
        /\ searched' = searched + 1
  /\ UNCHANGED <<aligner_vars, parameters, operation, added_local_maps, place_database, closures, pc, local_map_query,
                 matches_per_reference_image, maximum_index_reference,
                 index_reference_local_map, multiple_matches_mixed, register_vars>>

NextSearch == SearchCorrespondence

SpecSearch == InitSearch /\ [][NextSearch]_vars

-----------------------------------------------------------------------------
(* The pose aligner (src/src/aligners/uvd_aligner.cpp).

   The Gauss-Newton numerics (H, b, the Jacobians, the solve and the retraction
   of lines 113-146 and 157-167) are not computed: a round leaves the engine with
   a pose under which the active points may lie anywhere, so the points predicted
   in the camera frame are drawn anew after every round.  Coordinates are small
   integers chosen so that the perspective division is exact. *)

\* most active points of a frame handed to linearize and oneRound
MaxPoints == 2
\* most active points of a frame that converge runs on
MaxPointsConverge == 1
\* largest configured _maximum_number_of_iterations
MaxIterations == 3

\* _camera_matrix (line 19): focal length and principal point, in pixels
FocalLength == 2
PrincipalPoint == 1
\* _number_of_cols_image, _number_of_rows_image (lines 20-21)
NumberOfColsImage == 2
NumberOfRowsImage == 2
\* _maximum_depth_far_meters (line 58)
MaximumDepthFarMeters == 2
\* _maximum_error_kernel (line 97)
MaximumErrorKernel == 1

\* configured _error_delta_for_convergence
ErrorDeltasForConvergence == {0, 1, 3}

\* no reprojection has been cached for a point
NoCoordinates == <<-1, -1, -1>>

\* the active points a frame may hold: what was observed of them (image coordinates and
\* depth in the camera) and the cached reprojection
FramePoints ==
  [image_coordinates  : {<<1, 1>>, <<2, 1>>},
   camera_depth       : {1},
   reprojection       : {NoCoordinates}]

\* line 47: a point without landmark
NoLandmark ==
  [identifier |-> -1, coordinates |-> <<0, 0, 0>>, are_coordinates_validated |-> FALSE]

\* lines 47-51: what frame_point->landmark() may point to: nothing, or a landmark with
\* coordinates in the world that are validated or not
Landmarks ==
  {NoLandmark} \cup [identifier : {0}, coordinates : {<<0, 0, 1>>},
                     are_coordinates_validated : BOOLEAN]

\* the active points together with the landmark each of them points to
FramePointsWithLandmark ==
  [image_coordinates  : {<<1, 1>>},
   camera_depth       : {1},
   reprojection       : {NoCoordinates},
   landmark           : Landmarks]

\* where a pose may put a point in the camera frame: behind the camera or on it, beyond
\* the far limit, in front within the image, in front beside the image
PredictedPoints ==
  {<<0, 0, 0>>, <<0, 0, 3>>, <<0, 0, 1>>, <<1, 0, 2>>, <<-1, 0, 2>>, <<1, 0, 1>>}

\* the points predicted for a frame of n active points
PredictedVectors(n) == [1..n -> PredictedPoints]

\* line 58: the predicted depth is not usable
DepthOutOfRange(depth_meters) ==
  depth_meters <= 0 \/ depth_meters > MaximumDepthFarMeters

\* lines 63-68: projection by the camera matrix, perspective division, depth restored
PredictedPointInImage(predicted_point_in_camera) ==
  LET depth_meters == predicted_point_in_camera[3]
      predicted_uvd_in_camera ==
        <<FocalLength * predicted_point_in_camera[1] + PrincipalPoint * depth_meters,
          FocalLength * predicted_point_in_camera[2] + PrincipalPoint * depth_meters,
          depth_meters>>
  IN <<predicted_uvd_in_camera[1] \div depth_meters,
       predicted_uvd_in_camera[2] \div depth_meters,
       depth_meters>>

\* lines 71-72: the point is outside the image
OutsideImage(predicted_point_in_image) ==
  \/ predicted_point_in_image[1] < 0 \/ predicted_point_in_image[1] > NumberOfColsImage
  \/ predicted_point_in_image[2] < 0 \/ predicted_point_in_image[2] > NumberOfRowsImage

\* lines 86-91: chi, the squared error
SquaredError(predicted_point_in_image, frame_point) ==
  LET error == <<predicted_point_in_image[1] - frame_point.image_coordinates[1],
                 predicted_point_in_image[2] - frame_point.image_coordinates[2],
                 predicted_point_in_image[3] - frame_point.camera_depth>>
  IN error[1] * error[1] + error[2] * error[2] + error[3] * error[3]

\* mutant of line 83: the prediction is written over the observed image coordinates
SetImageCoordinatesLeft(frame_point, predicted_point_in_image) ==
  [frame_point EXCEPT !.reprojection = predicted_point_in_image,
                      !.image_coordinates = <<predicted_point_in_image[1],
                                              predicted_point_in_image[2]>>]

\* line 83: frame_point->setReprojectionCoordinatesLeft(predicted_point_in_image)
SetReprojectionCoordinatesLeft(frame_point, predicted_point_in_image) ==
  [frame_point EXCEPT !.reprojection = predicted_point_in_image]

\* mutant of line 97: a residual equal to the kernel is an outlier too
IsOutlierOrEqual(chi) == chi >= MaximumErrorKernel

\* line 97: if outlier
IsOutlier(chi) == chi > MaximumErrorKernel

\* lines 36-37, 59, 73: a point that is skipped
SkippedPoint(frame_point) ==
  [error |-> -1, inlier |-> FALSE, inliers |-> 0, outliers |-> 0, total_error |-> 0,
   frame_point |-> frame_point]

\* lines 36-111: the loop body for one point: its entries of _errors and _inliers, what
\* it adds to the counters and to _total_error, and the point itself afterwards
LinearizePoint(frame_point, predicted_point_in_camera, ignore_outliers_) ==
  IF DepthOutOfRange(predicted_point_in_camera[3]) THEN SkippedPoint(frame_point)
  ELSE LET predicted_point_in_image == PredictedPointInImage(predicted_point_in_camera) IN
       IF OutsideImage(predicted_point_in_image) THEN SkippedPoint(frame_point)
       ELSE LET chi == SquaredError(predicted_point_in_image, frame_point)
                reprojected == SetReprojectionCoordinatesLeft(frame_point, predicted_point_in_image)
            IN IF IsOutlier(chi)
               THEN [error |-> chi, inlier |-> FALSE, inliers |-> 0, outliers |-> 1,
                     total_error |-> IF ignore_outliers_ THEN 0 ELSE chi,
                     frame_point |-> reprojected]
               ELSE [error |-> chi, inlier |-> TRUE, inliers |-> 1, outliers |-> 0,
                     total_error |-> chi, frame_point |-> reprojected]

RECURSIVE SumOver(_, _)
\* the sum of a sequence of numbers
SumOver(values, i) == IF i > Len(values) THEN 0 ELSE values[i] + SumOver(values, i + 1)

\* lines 25-148: what linearize leaves behind
Linearized(frame_, predicted_, ignore_outliers_) ==
  LET points == [i \in DOMAIN frame_ |-> LinearizePoint(frame_[i], predicted_[i], ignore_outliers_)]
  IN [frame              |-> [i \in DOMAIN frame_ |-> points[i].frame_point],
      errors             |-> [i \in DOMAIN frame_ |-> points[i].error],
      inliers            |-> [i \in DOMAIN frame_ |-> points[i].inlier],
      number_of_inliers  |-> SumOver([i \in DOMAIN frame_ |-> points[i].inliers], 1),
      number_of_outliers |-> SumOver([i \in DOMAIN frame_ |-> points[i].outliers], 1),
      total_error        |-> SumOver([i \in DOMAIN frame_ |-> points[i].total_error], 1)]

\* std::fabs
Fabs(x) == IF x < 0 THEN -x ELSE x

\* mutant of line 181: the comparison is turned around
HasConvergedReversed(total_error_previous_, total_error_) ==
  error_delta_for_convergence < Fabs(total_error_previous_ - total_error_)

\* line 181: no descent required
HasConverged(total_error_previous_, total_error_) ==
  error_delta_for_convergence > Fabs(total_error_previous_ - total_error_)

\* mutant of line 177: the loop runs once more
WithinIterationsOrEqual(iteration_) ==
  iteration_ <= maximum_number_of_iterations

\* line 177: the loop condition
WithinIterations(iteration_) ==
  iteration_ < maximum_number_of_iterations

\* line 199: check last iteration
IsLastIteration(iteration_) ==
  iteration_ = SubtractCount(maximum_number_of_iterations, 1)

\* the relocalizer is not in use
NoRelocalizer ==
  /\ parameters = CHOOSE p \in ParameterValues : TRUE
  /\ added_local_maps = <<>>
  /\ place_database = <<>>
  /\ closures = <<>>
  /\ mask = {}
  /\ operation = "none"
  /\ local_map_query = NoLocalMap
  /\ matches_per_reference_image = {}
  /\ maximum_index_reference = 0
  /\ index_reference_local_map = 0
  /\ multiple_matches_mixed = <<>>
  /\ searched = 0
  /\ correspondence = NoCorrespondence
  /\ correspondences = <<>>
  /\ index_closure = 0
  /\ aligner_calls = <<>>

\* the frames of up to n active points
Frames(n) == UNION {[1..k -> FramePoints] : k \in 1..n}

\* the frames of up to n active points, with their landmarks
FramesWithLandmarks(n) == UNION {[1..k -> FramePointsWithLandmark] : k \in 1..n}

\* lines 11-12: resize keeps the entries a buffer has and fills up with the given value
Resize(buffer, n, value) ==
  [i \in 1..n |-> IF i \in DOMAIN buffer THEN buffer[i] ELSE value]

\* lines 9-22: initialize(frame_, robot_to_world_) has bound the engine to one of the
\* given frames, under some pose
Initialized(frames) ==
  /\ NoRelocalizer
  /\ pc = "ready"
  /\ frame \in frames
  /\ predicted_points_in_camera \in PredictedVectors(Len(frame))
  /\ errors = Resize(<<>>, Len(frame), 0)
  /\ inliers = Resize(<<>>, Len(frame), FALSE)
  /\ number_of_inliers = 0
  /\ number_of_outliers = 0
  /\ total_error = 0
  /\ iteration = 0
  /\ total_error_previous = 0
  /\ rounds = <<>>

\* lines 25-148 as part of an action: the members linearize writes
LinearizeSystem(ignore_outliers_) ==
  LET linearized == Linearized(frame, predicted_points_in_camera, ignore_outliers_)
  IN /\ frame' = linearized.frame
     /\ errors' = linearized.errors
     /\ inliers' = linearized.inliers
     /\ number_of_inliers' = linearized.number_of_inliers
     /\ number_of_outliers' = linearized.number_of_outliers
     /\ total_error' = linearized.total_error

\* lines 151-168 as part of an action: linearize, then the solve and the update of
\* _world_to_camera, after which the points are predicted anywhere
OneRoundSystem(ignore_outliers_) ==
  /\ LinearizeSystem(ignore_outliers_)
  /\ predicted_points_in_camera' \in PredictedVectors(Len(frame))

\* lines 25-148: linearize(ignore_outliers_), called on its own
Linearize(ignore_outliers_) ==
  /\ pc = "ready"
  /\ LinearizeSystem(ignore_outliers_)
  /\ UNCHANGED <<relocalizer_vars, pc, maximum_number_of_iterations,
                 error_delta_for_convergence, predicted_points_in_camera,
                 has_system_converged, iteration, total_error_previous, rounds>>

\* lines 151-168: oneRound(ignore_outliers_), called on its own
OneRound(ignore_outliers_) ==
  /\ pc = "ready"
  /\ OneRoundSystem(ignore_outliers_)
  /\ UNCHANGED <<relocalizer_vars, pc, maximum_number_of_iterations,
                 error_delta_for_convergence, has_system_converged, iteration,
                 total_error_previous, rounds>>

\* the engine is bound to a frame; linearize and oneRound are called on it
InitLinearize ==
  /\ Initialized(Frames(MaxPoints))
  /\ maximum_number_of_iterations = 0
  /\ error_delta_for_convergence = 0
  /\ has_system_converged = FALSE

NextLinearize ==
  \/ \E ignore_outliers_ \in BOOLEAN : Linearize(ignore_outliers_)
  \/ \E ignore_outliers_ \in BOOLEAN : OneRound(ignore_outliers_)

SpecLinearize == InitLinearize /\ [][NextLinearize]_vars

\* lines 171-177: converge() is entered
Converge ==
  /\ pc \in {"ready", "returned"}
  /\ pc' = "converge"
  /\ total_error_previous' = 0
  /\ iteration' = 0
  /\ rounds' = <<>>
  /\ UNCHANGED <<relocalizer_vars, maximum_number_of_iterations, error_delta_for_convergence,
                 frame, predicted_points_in_camera, errors, inliers, number_of_inliers,
                 number_of_outliers, total_error, has_system_converged>>

\* lines 177-205: one iteration of the loop of converge, up to the inlier only runs
ConvergeRound ==
  /\ pc = "converge"
  /\ WithinIterations(iteration)
  /\ OneRoundSystem(FALSE)
  /\ rounds' = Append(rounds, [ignore_outliers |-> FALSE, total_error |-> total_error'])
  /\ IF HasConverged(total_error_previous, total_error')
     THEN \* line 184 is next
          /\ pc' = "inliers_1"
          /\ UNCHANGED <<total_error_previous, has_system_converged, iteration>>
     ELSE \* lines 195-204
          /\ total_error_previous' = total_error'
          /\ has_system_converged' = IF IsLastIteration(iteration) THEN FALSE
                                     ELSE has_system_converged
          /\ iteration' = iteration + 1
          /\ pc' = "converge"
  /\ UNCHANGED <<relocalizer_vars, maximum_number_of_iterations, error_delta_for_convergence>>

\* pc after each of the three inlier only runs
AfterInlierRun ==
  [inliers_1 |-> "inliers_2", inliers_2 |-> "inliers_3", inliers_3 |-> "update"]

\* lines 184-193: one of the inlier only runs; the third is followed by the
\* information matrix, the flag and the break
InlierRound ==
  /\ pc \in DOMAIN AfterInlierRun
  /\ OneRoundSystem(TRUE)
  /\ rounds' = Append(rounds, [ignore_outliers |-> TRUE, total_error |-> total_error'])
  /\ pc' = AfterInlierRun[pc]
  /\ has_system_converged' = IF pc = "inliers_3" THEN TRUE ELSE has_system_converged
  /\ UNCHANGED <<relocalizer_vars, maximum_number_of_iterations, error_delta_for_convergence,
                 iteration, total_error_previous>>

\* lines 177, 207-211: the loop is left, the wrapped structures are updated and
\* converge() returns
ConvergeReturn ==
  /\ \/ pc = "update"
     \/ pc = "converge" /\ ~WithinIterations(iteration)
  /\ pc' = "returned"
  /\ UNCHANGED <<relocalizer_vars, aligner_vars>>

\* the engine is bound to a frame, its iteration cap and convergence threshold are
\* configured, and the convergence flag holds what construction or an earlier use of
\* the engine left in it; converge is called on it
InitConverge ==
  /\ Initialized(Frames(MaxPointsConverge))
  /\ maximum_number_of_iterations \in 0..MaxIterations
  /\ error_delta_for_convergence \in ErrorDeltasForConvergence
  /\ has_system_converged \in BOOLEAN

NextConverge ==
  \/ Converge
  \/ ConvergeRound
  \/ InlierRound
  \/ ConvergeReturn

SpecConverge == InitConverge /\ [][NextConverge]_vars

\* the engine is bound to a frame whose points have landmarks, with an iteration cap of
\* 1 and a convergence threshold of 1; linearize is called on it, and converge, which
\* calls oneRound
InitAligner ==
  /\ Initialized(FramesWithLandmarks(MaxPoints))
  /\ maximum_number_of_iterations = 1
  /\ error_delta_for_convergence = 1
  /\ has_system_converged = FALSE

NextAligner ==
  \/ \E ignore_outliers_ \in BOOLEAN : Linearize(ignore_outliers_)
  \/ NextConverge

SpecAligner == InitAligner /\ [][NextAligner]_vars

\* converge() has been entered and has not returned
ConvergeRunning == pc \in {"converge", "inliers_1", "inliers_2", "inliers_3", "update"}

\* A running converge() is not held up, the thread that called it keeps executing it:
\* weak fairness of its steps, WF_vars(ConvergeRound \/ InlierRound \/ ConvergeReturn),
\* written out with the enabling condition of these steps, which is ConvergeRunning.
ConvergeFairness ==
  \/ []<>(~ConvergeRunning)
  \/ []<><<ConvergeRound \/ InlierRound \/ ConvergeReturn>>_vars

SpecConvergeFair == SpecConverge /\ ConvergeFairness

-----------------------------------------------------------------------------
(* Properties of the relocalizer. *)

Interspace == parameters.preliminary_minimum_interspace_queries

\* the position (0-based, in order of addition) of a local map
Position(local_map) == local_map.identifier

\* C1: warm-up. Starting from an empty place database, as long as no more than
\* preliminary_minimum_interspace_queries non-null local maps have been handed to
\* detectClosures, the pending closure list is empty, whatever the database matches.
C1_WarmUpNoClosures ==
  Len(added_local_maps) <= Interspace => closures = <<>>

\* C1 witness: as many calls as the interspace allows have returned
C1_Witness ==
  /\ pc = "idle"
  /\ Interspace >= 2
  /\ Len(added_local_maps) = Interspace
  /\ Len(place_database) = Interspace

\* C2: eligible range. Every pending Closure whose query was added at position q has
\* a reference added at a position r <= q - interspace: the interspace most recently
\* indexed local maps are never references.
C2_EligibleRange ==
  \A i \in DOMAIN closures :
    Position(closures[i].local_map_reference)
      <= Position(closures[i].local_map_query) - Interspace

\* C2 witness: a Closure whose reference is the latest eligible local map, with local
\* maps between it and the query
C2_Witness ==
  \E i \in DOMAIN closures :
    /\ Interspace >= 2
    /\ Position(closures[i].local_map_reference)
         = Position(closures[i].local_map_query) - Interspace

\* C3: no self-match. For every configured interspace, no pending Closure has its
\* query local map as its reference.
C3_NoSelfMatch ==
  \A i \in DOMAIN closures :
    closures[i].local_map_reference # closures[i].local_map_query

\* C3 witness: with the smallest interspace that lets a query run, a Closure against
\* the query's predecessor
C3_Witness ==
  \E i \in DOMAIN closures :
    /\ Interspace = 1
    /\ Position(closures[i].local_map_reference) + 1 = Position(closures[i].local_map_query)

\* the query landmark identifiers among the matches of a vector
QueryLandmarksOf(matches) == {matches[k].query : k \in DOMAIN matches}

\* the candidates of one query landmark, in the order of the match vector
CandidatesOf(matches, landmark) == SelectSeq(matches, LAMBDA m : m.query = landmark)

\* how often a reference landmark occurs in a candidate list
Occurrences(candidates, reference) ==
  Cardinality({k \in DOMAIN candidates : candidates[k].reference = reference})

\* the highest occurrence count among the given reference landmarks (0 for none)
HighestCount(candidates, references) ==
  IF references = {} THEN 0
  ELSE LET counts == {Occurrences(candidates, r) : r \in references}
       IN CHOOSE c \in counts : \A d \in counts : d <= c

C5_CountIsResolved ==
  \A i \in DOMAIN closures :
    closures[i].number_of_matched_landmarks = Len(closures[i].correspondences)

\* C5, amended: the matched-landmark count stored in an emitted Closure is the number
\* of distinct query landmark identifiers among the raw matches to its reference (the
\* landmarks that have candidates); the correspondence list is at most that long.
C5_CountIsLandmarksWithCandidates ==
  /\ pc = "getchar" =>
       closures[Len(closures)].number_of_matched_landmarks
         = Cardinality(QueryLandmarksOf(multiple_matches_mixed))
  /\ \A i \in DOMAIN closures :
       Len(closures[i].correspondences) <= closures[i].number_of_matched_landmarks

\* C5 witness: a Closure just pushed with two matched landmarks and one Correspondence
C5_Witness ==
  /\ pc = "getchar"
  /\ closures[Len(closures)].number_of_matched_landmarks = 2
  /\ Len(closures[Len(closures)].correspondences) = 1

\* the landmark visited by the latest iteration of the correspondence search: the
\* searched-th smallest query landmark identifier of the match vector
LandmarkSearched ==
  CHOOSE landmark \in QueryLandmarksOf(multiple_matches_mixed) :
    Cardinality({l \in QueryLandmarksOf(multiple_matches_mixed) : l <= landmark}) = searched

VoteThreshold == parameters.minimum_matches_per_correspondence

\* C6: vote resolution. With an empty mask, _getCorrespondenceNN returns a
\* Correspondence for a non-empty candidate list of one query landmark iff the highest
\* occurrence count of a reference identifier is strictly greater than the minimum-votes
\* threshold; the returned reference has that count, votes is that count and confidence
\* is votes divided by the list length. Otherwise it returns nothing and the mask stays
\* as it was (empty).
C6_VoteResolution ==
  (pc = "search" /\ searched = 1) =>
    LET candidates == CandidatesOf(multiple_matches_mixed, LandmarkSearched)
        highest    == HighestCount(candidates, ReferenceLandmarks)
    IN IF highest > VoteThreshold
       THEN /\ correspondence # NoCorrespondence
            /\ correspondence.query = LandmarkSearched
            /\ Occurrences(candidates, correspondence.reference) = highest
            /\ correspondence.votes = highest
            /\ correspondence.confidence[1] * Len(candidates)
                 = highest * correspondence.confidence[2]
            /\ correspondence.confidence[2] > 0
       ELSE /\ correspondence = NoCorrespondence
            /\ mask = {}

\* C6 witness: the candidates [R1, R1, R2] of landmark 1 with threshold 1 have given
\* R1 with votes 2 and confidence 2/3
C6_Witness ==
  /\ pc = "search" /\ searched = 1
  /\ VoteThreshold = 1
  /\ multiple_matches_mixed = <<[query |-> 1, reference |-> 1], [query |-> 1, reference |-> 1],
                                [query |-> 1, reference |-> 2]>>
  /\ correspondence = [query |-> 1, reference |-> 1, votes |-> 2, confidence |-> <<2, 3>>]

\* the reference landmarks returned for the landmarks visited before the latest one
ClaimedBefore ==
  {correspondences[k].reference :
     k \in {j \in DOMAIN correspondences : correspondences[j].query < LandmarkSearched}}

\* C7: first-claim-wins masking. While the query landmarks of one reference local map
\* are resolved in processing order, the candidates that point at a reference landmark
\* returned earlier are not counted: a landmark gets the Correspondence for its most
\* frequent unclaimed reference if that count exceeds the vote threshold, and none
\* otherwise; no reference landmark appears twice in the correspondence list.
C7_FirstClaimWins ==
  /\ \A a, b \in DOMAIN correspondences :
       a # b => correspondences[a].reference # correspondences[b].reference
  /\ (pc = "search" /\ searched >= 1) =>
       LET candidates == CandidatesOf(multiple_matches_mixed, LandmarkSearched)
           unclaimed  == ReferenceLandmarks \ ClaimedBefore
           best       == HighestCount(candidates, unclaimed)
       IN IF best > VoteThreshold
          THEN /\ correspondence # NoCorrespondence
               /\ correspondences # <<>>
               /\ correspondences[Len(correspondences)] = correspondence
               /\ correspondence.query = LandmarkSearched
               /\ correspondence.reference \in unclaimed
               /\ correspondence.votes = best
               /\ Occurrences(candidates, correspondence.reference) = best
          ELSE /\ correspondence = NoCorrespondence
               /\ \A k \in DOMAIN correspondences :
                    correspondences[k].query # LandmarkSearched

\* C7 witness: the second landmark's most frequent reference was claimed by the first,
\* and it has got its next-best reference
C7_Witness ==
  /\ pc = "search" /\ searched = 2
  /\ Len(correspondences) = 2
  /\ LET candidates == CandidatesOf(multiple_matches_mixed, LandmarkSearched)
     IN Occurrences(candidates, correspondences[1].reference)
          > Occurrences(candidates, correspondences[2].reference)

\* the match ratio of a match vector is below the configured minimum:
\* matches / query descriptors < numerator / denominator
RatioBelowMinimum(matches, query) ==
  Len(matches) * parameters.preliminary_minimum_matching_ratio[2]
    < parameters.preliminary_minimum_matching_ratio[1] * query.appearances

\* fewer distinct query landmarks among the matches than the configured minimum
TooFewMatchedLandmarks(matches) ==
  Cardinality(QueryLandmarksOf(matches)) < parameters.minimum_number_of_matched_landmarks

\* a step that is one iteration of the reference loop; multiple_matches_mixed' is the
\* match vector of the reference it has evaluated
IsEvaluation == pc = "loop" /\ pc' \in {"loop", "getchar"}

\* C8: match-ratio gate. An iteration of the reference loop on a reference whose match
\* ratio (raw matches / query descriptors) is below the configured minimum pushes no
\* Closure and changes neither the closures nor the mask.
C8_MatchRatioGate ==
  [][(IsEvaluation /\ RatioBelowMinimum(multiple_matches_mixed', local_map_query))
       => (closures' = closures /\ mask' = mask /\ pc' = "loop")]_vars

\* C8 witness: a reference with matches has been skipped for its ratio while Closures
\* were pending and the mask was not empty
C8_Witness ==
  /\ pc = "loop"
  /\ index_reference_local_map >= 1
  /\ multiple_matches_mixed # <<>>
  /\ RatioBelowMinimum(multiple_matches_mixed, local_map_query)
  /\ closures # <<>>
  /\ mask # {}

\* C9: matched-landmark gate. An iteration of the reference loop on a reference whose
\* raw matches hold fewer distinct query landmark identifiers than
\* minimum_number_of_matched_landmarks pushes no Closure.
C9_MatchedLandmarkGate ==
  [][(IsEvaluation /\ TooFewMatchedLandmarks(multiple_matches_mixed'))
       => (closures' = closures /\ pc' = "loop")]_vars

\* C9 witness: a reference that passed the ratio gate with two matches of one landmark
\* has been skipped
C9_Witness ==
  /\ pc = "loop"
  /\ index_reference_local_map >= 1
  /\ Len(multiple_matches_mixed) = 2
  /\ ~RatioBelowMinimum(multiple_matches_mixed, local_map_query)
  /\ TooFewMatchedLandmarks(multiple_matches_mixed)

\* the Closures of one query are in increasing order of reference position
IncreasingReferenceOrder ==
  \A i, j \in DOMAIN closures :
    (i < j /\ closures[i].local_map_query = closures[j].local_map_query)
      => Position(closures[i].local_map_reference) < Position(closures[j].local_map_reference)

\* C10: one Closure per surviving reference. A query-phase call visits the eligible
\* references in increasing index order, each once; an iteration appends exactly one
\* Closure, with the call's local map as query and the visited reference, if the
\* reference passes the match-ratio gate and the matched-landmark gate, also when no
\* Correspondence was resolved, and appends nothing otherwise; no other step of the
\* call changes the pending list.
C10_OneClosurePerSurvivor ==
  [][/\ IsEvaluation =>
          IF \/ RatioBelowMinimum(multiple_matches_mixed', local_map_query)
             \/ TooFewMatchedLandmarks(multiple_matches_mixed')
          THEN /\ closures' = closures
               /\ pc' = "loop"
               /\ index_reference_local_map' = index_reference_local_map + 1
          ELSE /\ Len(closures') = Len(closures) + 1
               /\ SubSeq(closures', 1, Len(closures)) = closures
               /\ closures'[Len(closures')].local_map_query = local_map_query
               /\ closures'[Len(closures')].local_map_reference
                    = added_local_maps[index_reference_local_map + 1]
               /\ Position(closures'[Len(closures')].local_map_reference)
                    = index_reference_local_map
               /\ pc' = "getchar"
               /\ index_reference_local_map' = index_reference_local_map
     /\ (pc = "idle" /\ pc' = "loop") =>
          /\ closures' = closures
          /\ index_reference_local_map' = 0
          /\ local_map_query' = added_local_maps'[Len(added_local_maps')]
     /\ (pc = "idle" /\ pc' = "idle" /\ added_local_maps' # added_local_maps) =>
          closures' = closures
     /\ pc = "getchar" =>
          /\ closures' = closures
          /\ pc' = "loop"
          /\ index_reference_local_map' = index_reference_local_map + 1
     /\ (pc = "loop" /\ pc' = "idle") =>
          /\ closures' = closures
          /\ index_reference_local_map = maximum_index_reference
     /\ IncreasingReferenceOrder'
    ]_vars

\* C10 witness: the second Closure of a call has just been pushed, without any
\* Correspondence
C10_Witness ==
  /\ pc = "getchar"
  /\ Len(closures) >= 2
  /\ closures[Len(closures) - 1].local_map_query = closures[Len(closures)].local_map_query
  /\ closures[Len(closures)].correspondences = <<>>

\* the local map of the latest detectClosures call with a local map
LatestQuery == added_local_maps[Len(added_local_maps)]

\* C11: closures are invalidated by the next detection cycle. Whenever no operation is
\* running, every pending Closure has the local map of the latest detectClosures call
\* as its query: the Closures of an earlier call are no longer pending, also when
\* clear() was not called in between.
C11_InvalidatedByNextCycle ==
  pc = "idle" =>
    \A i \in DOMAIN closures : closures[i].local_map_query = LatestQuery

\* C17: detectClosures never suspends. A detectClosures call never waits for an
\* external event or input: the pipeline thread is never at a point where it goes on
\* only once standard input delivers something.
C17_NeverSuspends ==
  pc # "getchar"

\* C12: clear() postcondition. From any reachable state, a clear() call leaves the
\* pending closure list empty and the used-reference mask empty, and leaves the sequence
\* of recorded local maps and the contents of the place database as they were; a clear()
\* that follows a clear() changes nothing.
C12_ClearPostcondition ==
  [][operation' = "clear" =>
       /\ closures' = <<>>
       /\ mask' = {}
       /\ added_local_maps' = added_local_maps
       /\ place_database' = place_database
       /\ pc' = "idle"
       /\ operation = "clear" =>
            <<added_local_maps, place_database, closures, mask>>'
              = <<added_local_maps, place_database, closures, mask>>
    ]_vars

\* C12 witness: clear() has returned with local maps recorded and held by the database
C12_Witness ==
  /\ operation = "clear"
  /\ pc = "idle"
  /\ Len(added_local_maps) >= 2
  /\ Len(place_database) >= 2
  /\ closures = <<>>
  /\ mask = {}

\* the aligner has been run once on each of the first index_closure pending Closures,
\* in list order, initialize followed by converge, and on nothing else
RegisteredInOrder ==
  /\ index_closure <= Len(closures)
  /\ Len(aligner_calls) = 2 * index_closure
  /\ \A i \in 1..index_closure :
       /\ aligner_calls[2 * i - 1] = [call |-> "initialize", closure |-> closures[i]]
       /\ aligner_calls[2 * i] = [call |-> "converge", closure |-> closures[i]]

\* C13: registerClosures runs the point-to-point aligner, initialize followed by
\* converge, exactly once for every pending Closure, in list order, also for a Closure
\* without Correspondences, and returns once it has passed the whole list; it leaves the
\* pending closure list, the mask and the recorded local maps unchanged; with no pending
\* Closure it calls nothing.
C13_RegisterClosures ==
  [][/\ pc' = "register" => RegisteredInOrder'
     /\ (pc = "idle" /\ pc' = "register") =>
          /\ index_closure' = 0
          /\ aligner_calls' = <<>>
     /\ (pc = "register" /\ pc' = "register") =>
          /\ index_closure < Len(closures)
          /\ index_closure' = index_closure + 1
     /\ (pc = "register" /\ pc' = "idle") =>
          /\ index_closure = Len(closures)
          /\ Len(aligner_calls) = 2 * Len(closures)
     /\ (pc = "register" \/ pc' = "register") =>
          /\ closures' = closures
          /\ mask' = mask
          /\ added_local_maps' = added_local_maps
          /\ place_database' = place_database
    ]_vars

\* C13 witness: registerClosures has passed a list of two Closures of different
\* queries, the first of them without Correspondences, and is about to return
C13_Witness ==
  /\ pc = "register"
  /\ Len(closures) = 2
  /\ index_closure = 2
  /\ Len(aligner_calls) = 4
  /\ closures[1].correspondences = <<>>
  /\ closures[1].local_map_query # closures[2].local_map_query

\* C19: index alignment. After any sequence of configure, detectClosures,
\* registerClosures and clear calls the relocalizer has recorded as many local maps as
\* the place database holds entries, database entry i is the i-th recorded local map,
\* and every reference index the loop of detectClosures looks up is within the bounds
\* of the recorded sequence.
C19_IndexAlignment ==
  /\ Len(added_local_maps) = Len(place_database)
  /\ \A i \in DOMAIN added_local_maps \cap DOMAIN place_database :
       added_local_maps[i].identifier = place_database[i]
  /\ (/\ pc = "loop"
      /\ index_reference_local_map < maximum_index_reference
      /\ index_reference_local_map \in matches_per_reference_image)
       => index_reference_local_map < Len(added_local_maps)

\* C20: monotone indexing. A detectClosures call with a local map appends that local
\* map, which was not recorded before, once to the recorded sequence and once to the
\* place database when it is entered, in the warm-up phase (the call returns at once)
\* and in the query phase alike, and no later step of the call, whether or not it
\* pushes a Closure, changes either; a call with a null local map changes neither the
\* recorded sequence nor the database nor the pending closures nor the mask.
C20_MonotoneIndexing ==
  [][/\ (pc = "idle" /\ operation' = "detectClosures") =>
          LET local_map == added_local_maps'[Len(added_local_maps')] IN
          /\ Len(added_local_maps') = Len(added_local_maps) + 1
          /\ SubSeq(added_local_maps', 1, Len(added_local_maps)) = added_local_maps
          /\ \A i \in DOMAIN added_local_maps : added_local_maps[i] # local_map
          /\ Len(place_database') = Len(place_database) + 1
          /\ SubSeq(place_database', 1, Len(place_database)) = place_database
          /\ place_database'[Len(place_database')] = local_map.identifier
          /\ \A i \in DOMAIN place_database : place_database[i] # local_map.identifier
          /\ closures' = closures
          /\ mask' = mask
          /\ IF Len(place_database) < Interspace
             THEN pc' = "idle"
             ELSE pc' = "loop" /\ local_map_query' = local_map
     /\ pc \in {"loop", "getchar"} =>
          /\ added_local_maps' = added_local_maps
          /\ place_database' = place_database
     /\ operation' = "detectClosures(nullptr)" =>
          /\ added_local_maps' = added_local_maps
          /\ place_database' = place_database
          /\ closures' = closures
          /\ mask' = mask
          /\ pc' = "idle"
    ]_vars

\* C20 witness: two warm-up calls, a query-phase call that pushed a Closure and a call
\* with a null local map have returned
C20_Witness ==
  /\ pc = "idle"
  /\ operation = "detectClosures(nullptr)"
  /\ Interspace = 2
  /\ Len(added_local_maps) = 3
  /\ Len(place_database) = 3
  /\ closures # <<>>
  /\ mask # {}

-----------------------------------------------------------------------------
(* Properties of the pose aligner. *)

\* the rounds of the running or latest converge() made with ignore_outliers_ = false,
\* and those made with ignore_outliers_ = true
RoundsWithOutliers == {k \in DOMAIN rounds : ~rounds[k].ignore_outliers}
RoundsIgnoringOutliers == {k \in DOMAIN rounds : rounds[k].ignore_outliers}

\* the absolute change of the total error that round k brought
ErrorChange(k) ==
  LET before == IF k = 1 THEN 0 ELSE rounds[k - 1].total_error
      change == rounds[k].total_error - before
  IN IF change < 0 THEN -change ELSE change

\* the rounds with outliers whose change of the total error is below the threshold
RoundsBelowThreshold ==
  {k \in RoundsWithOutliers : ErrorChange(k) < error_delta_for_convergence}

\* C14: converge() is bounded. A running converge() returns; it makes at most
\* maximum_number_of_iterations rounds with ignore_outliers = false, all of them before
\* any round with ignore_outliers = true; the first round whose absolute total-error
\* change is below the convergence threshold is the last of them and is followed by
\* exactly three rounds with ignore_outliers = true; if no round meets that test there
\* are maximum_number_of_iterations rounds and none with ignore_outliers = true.
C14_ConvergeBounded ==
  /\ [](/\ Cardinality(RoundsWithOutliers) <= maximum_number_of_iterations
        /\ Cardinality(RoundsIgnoringOutliers) <= 3
        /\ \A j \in RoundsWithOutliers, k \in RoundsIgnoringOutliers : j < k
        /\ \A k \in RoundsBelowThreshold : k = Cardinality(RoundsWithOutliers)
        /\ RoundsIgnoringOutliers # {} => RoundsBelowThreshold # {}
        /\ pc = "returned" =>
             IF RoundsBelowThreshold # {}
             THEN Cardinality(RoundsIgnoringOutliers) = 3
             ELSE /\ Cardinality(RoundsWithOutliers) = maximum_number_of_iterations
                  /\ RoundsIgnoringOutliers = {})
  /\ (pc = "converge" ~> pc = "returned")

\* C14 witness: converge() has returned after three rounds of which the third was the
\* first below the threshold, and three rounds on the inliers
C14_Witness ==
  /\ pc = "returned"
  /\ maximum_number_of_iterations = 3
  /\ Cardinality(RoundsWithOutliers) = 3
  /\ RoundsBelowThreshold = {3}
  /\ Cardinality(RoundsIgnoringOutliers) = 3

\* C15: the convergence flag. When converge() has returned, has_system_converged is
\* true if and only if some round of this converge() met the convergence test, whatever
\* the iteration cap and the value the flag had before the call.
C15_ConvergenceFlag ==
  pc = "returned" => (has_system_converged <=> RoundsBelowThreshold # {})

\* the squared residual of active point i at the pose linearize is called with
Residual(i) ==
  SquaredError(PredictedPointInImage(predicted_points_in_camera[i]), frame[i])

\* the active points whose predicted depth lies in (0, far limit]
PointsInDepthRange ==
  {i \in DOMAIN frame : /\ 0 < predicted_points_in_camera[i][3]
                        /\ predicted_points_in_camera[i][3] <= MaximumDepthFarMeters}

\* those of them that are projected into the image
PointsInImage ==
  {i \in PointsInDepthRange : ~OutsideImage(PredictedPointInImage(predicted_points_in_camera[i]))}

\* linearize has classified exactly the given points: each of them is an inlier iff its
\* squared residual is at most the outlier threshold and is counted as an outlier
\* otherwise, and the two counters add up to their number
Partitioned(points) ==
  /\ \A i \in points : inliers'[i] <=> Residual(i) <= MaximumErrorKernel
  /\ number_of_inliers' = Cardinality({i \in points : inliers'[i]})
  /\ number_of_outliers' = Cardinality({i \in points : ~inliers'[i]})
  /\ number_of_inliers' + number_of_outliers' = Cardinality(points)

\* C16 as stated: after linearize, for either value of ignore_outliers, every active
\* point whose predicted depth lies in (0, far limit] is an inlier iff its squared
\* residual is at most the outlier threshold and is otherwise counted as an outlier, and
\* number_of_inliers + number_of_outliers is the number of such points.
C16_PartitionInDepthRange ==
  [][Partitioned(PointsInDepthRange)]_vars

\* C16 amended: the partition is of the active points whose predicted depth lies in
\* (0, far limit] and whose projection lies inside the image; every other active point
\* is left with error -1 and a clear inlier flag and is counted neither way.
C16_PartitionInImage ==
  [][/\ Partitioned(PointsInImage)
     /\ \A i \in PointsInImage : errors'[i] = Residual(i)
     /\ \A i \in DOMAIN frame \ PointsInImage : errors'[i] = -1 /\ ~inliers'[i]]_vars

\* C16 witness: linearize has classified two points at the current pose, the first as
\* an inlier and the second as an outlier
C16_Witness ==
  /\ pc = "ready"
  /\ Len(frame) = 2
  /\ PointsInImage = {1, 2}
  /\ inliers[1] /\ errors[1] = Residual(1) /\ Residual(1) <= MaximumErrorKernel
  /\ ~inliers[2] /\ errors[2] = Residual(2) /\ Residual(2) > MaximumErrorKernel
  /\ number_of_inliers = 1
  /\ number_of_outliers = 1

\* the first round of the running or latest converge() left a total error that differs
\* from 0 by less than the convergence threshold
FirstRoundBelowThreshold ==
  /\ rounds # <<>>
  /\ (IF rounds[1].total_error < 0 THEN -rounds[1].total_error ELSE rounds[1].total_error)
       < error_delta_for_convergence

\* C18: immediate convergence. If the total error after the first round of converge()
\* differs from 0 by less than the convergence threshold, no second round with
\* ignore_outliers = false is made, and converge() returns after that one round and
\* three rounds with ignore_outliers = true, with has_system_converged set.
C18_ImmediateConvergence ==
  FirstRoundBelowThreshold =>
    /\ RoundsWithOutliers = {1}
    /\ pc = "returned" => /\ RoundsIgnoringOutliers = {2, 3, 4}
                          /\ has_system_converged

\* C18 witness: converge() has returned after a first round that left a total error of
\* 0, three rounds on the inliers and nothing else, and the flag is set
C18_Witness ==
  /\ pc = "returned"
  /\ maximum_number_of_iterations = 3
  /\ FirstRoundBelowThreshold
  /\ rounds[1].total_error = 0
  /\ Len(rounds) = 4
  /\ has_system_converged

\* what a step leaves of active point i: the observation and the landmark as they were,
\* and the cached reprojection either as it was or, if the point passes the depth and
\* the image test at the pose of the step, the prediction of the point at that pose
PointEffect(i) ==
  /\ frame'[i].image_coordinates = frame[i].image_coordinates
  /\ frame'[i].camera_depth = frame[i].camera_depth
  /\ frame'[i].landmark = frame[i].landmark
  /\ \/ frame'[i] = frame[i]
     \/ /\ i \in PointsInImage
        /\ frame'[i].reprojection = PredictedPointInImage(predicted_points_in_camera[i])

\* C21: aligner frame effect. Every step of linearize, oneRound and converge leaves
\* everything outside the engine as it was, but for the cached reprojection coordinates
\* of the points of the bound frame that pass the depth and the image-bounds test: the
\* landmarks (coordinates and validity), the observed image and camera coordinates of
\* every point, and every skipped point are unchanged.
C21_FrameEffect ==
  [][/\ UNCHANGED relocalizer_vars
     /\ DOMAIN frame' = DOMAIN frame
     /\ \A i \in DOMAIN frame : PointEffect(i)
     /\ \A i \in DOMAIN frame \ PointsInImage : frame'[i] = frame[i]]_vars

\* C21 witness: converge() has returned on a frame of two points with landmarks; the
\* first point has a cached reprojection, the second one was skipped by the last round
\* and has none, and both are otherwise as they were bound
C21_Witness ==
  /\ pc = "returned"
  /\ Len(frame) = 2
  /\ Len(rounds) = 4
  /\ frame[1].reprojection # NoCoordinates
  /\ frame[1].landmark.are_coordinates_validated
  /\ frame[1].image_coordinates = <<1, 1>>
  /\ frame[2].reprojection = NoCoordinates
  /\ frame[2].landmark # NoLandmark
  /\ errors[2] = -1

====
